---- MODULE Spec2Model ----
(***************************************************************************)
(* Model of healthcareai/common/filters.py: four fit/transform filters     *)
(* over pandas DataFrames.                                                 *)
(*                                                                         *)
(* A Python object is a record tagged by `py` (its type).  A DataFrame is  *)
(*   [py |-> "DataFrame", columns, index, data]                            *)
(* columns: sequence of [name, dtype]; a name is a sequence of characters  *)
(*          (so that str.endswith is computed, not assumed); column names  *)
(*          are unique within a frame;                                     *)
(* index:   sequence of row labels;                                        *)
(* data:    sequence of rows, a row being a sequence of cells aligned with *)
(*          columns; the cell << >> is a missing value (NaN/None/NaT) and  *)
(*          <<v>> is the present value v.                                  *)
(* One state is one filter instance, the caller's object x, and the        *)
(* outcome of the last fit/transform call on it.                           *)
(***************************************************************************)
EXTENDS Integers, Sequences, FiniteSets

VARIABLES
  self,      \* the filter instance (its class and its configuration)
  made,      \* the instance as its constructor left it
  x,         \* the object the caller passed to the last call, as it is now
  x_before,  \* the same object as it was when the last call started
  op,        \* the last call: "none", "fit" or "transform"
  outcome,   \* what the last call did: returned a value or raised an error
  chain      \* how many transforms in a row were fed the previous result

vars == <<self, made, x, x_before, op, outcome, chain>>

\* Largest number of rows of a caller's table.
MaxRows == 2

----------------------------------------------------------------------------
(* Python values *)

None == [py |-> "None"]

List(items) == [py |-> "list", items |-> items]

DataFrame(columns, index, data) ==
  [py |-> "DataFrame", columns |-> columns, index |-> index, data |-> data]

NaN == << >>

Col(name, dtype) == [name |-> name, dtype |-> dtype]

\* c in lst, for a Python list
In(c, lst) == \E i \in 1..Len(lst.items) : lst.items[i] = c

\* bool(v) for None and lists
Truthy(v) == v.py = "list" /\ Len(v.items) > 0

\* a wrong endswith: s.startswith(suffix)
startswith(s, suffix) ==
  /\ Len(s) >= Len(suffix)
  /\ SubSeq(s, 1, Len(suffix)) = suffix

\* s.endswith(suffix)
endswith(s, suffix) ==
  /\ Len(s) >= Len(suffix)
  /\ SubSeq(s, Len(s) - Len(suffix) + 1, Len(s)) = suffix

Range(s) == {s[i] : i \in 1..Len(s)}

RECURSIVE Concat(_)
Concat(ss) == IF ss = << >> THEN << >> ELSE Head(ss) \o Concat(Tail(ss))

\* the positions of 1..n that are in K, in increasing order
Positions(n, K) == SelectSeq([i \in 1..n |-> i], LAMBDA i : i \in K)

Names(df) == [i \in 1..Len(df.columns) |-> df.columns[i].name]

\* DataFrame.take(positions, axis=1): the columns at these positions, in this order
TakeColumns(df, pos) ==
  DataFrame([k \in 1..Len(pos) |-> df.columns[pos[k]]],
            df.index,
            [r \in 1..Len(df.data) |-> [k \in 1..Len(pos) |-> df.data[r][pos[k]]]])

\* DataFrame.take(positions, axis=0): the rows at these positions, with their labels
TakeRows(df, pos) ==
  DataFrame(df.columns,
            [k \in 1..Len(pos) |-> df.index[pos[k]]],
            [k \in 1..Len(pos) |-> df.data[pos[k]]])

\* a wrong df[names]: the columns come out in reverse
GetItemReversed(df, names) ==
  LET at(name) == Positions(Len(df.columns), {i \in 1..Len(df.columns) : df.columns[i].name = name})
  IN  TakeColumns(df, Concat([k \in 1..Len(names) |-> at(names[Len(names) + 1 - k])]))

\* df[names]: a new frame holding, for each listed name in turn, the columns so named
GetItem(df, names) ==
  LET at(name) == Positions(Len(df.columns), {i \in 1..Len(df.columns) : df.columns[i].name = name})
  IN  TakeColumns(df, Concat([k \in 1..Len(names) |-> at(names[k])]))

----------------------------------------------------------------------------
(* The outcome of a call, and the state a call leaves behind *)

NoCall ==
  [kind |-> "none", value |-> None, is |-> "", error |-> "", count |-> 0, columns |-> << >>]

\* `is` names the object returned: "self", "x" (the argument itself) or "new"
Returned(value, is) ==
  [kind |-> "return", value |-> value, is |-> is, error |-> "", count |-> 0, columns |-> << >>]

\* HealthcareAIError; count and columns are the values formatted into its message
HealthcareAIError(error, count, columns) ==
  [kind |-> "raise", value |-> None, is |-> "", error |-> error, count |-> count,
   columns |-> columns]

After(s, v, o) == [self |-> s, x |-> v, outcome |-> o]

\* validate_dataframe_input_for_transformer: silent on a DataFrame, raises otherwise
is_dataframe(v) == v.py = "DataFrame"

InvalidInput == HealthcareAIError("invalid input", 0, << >>)

----------------------------------------------------------------------------
(* DataframeColumnSuffixFilter *)

SuffixFilter_init == [py |-> "DataframeColumnSuffixFilter"]

SuffixFilter_fit(s, v) == After(s, v, Returned(s, "self"))

SuffixFilter_transform(s, v) ==
  IF ~is_dataframe(v) THEN After(s, v, InvalidInput)
  ELSE LET filtered_column_names ==
             SelectSeq(Names(v), LAMBDA column : ~endswith(column, <<"D", "T", "S">>))
       IN  After(s, v, Returned(GetItem(v, filtered_column_names), "new"))

----------------------------------------------------------------------------
(* DataFrameColumnDateTimeFilter *)

DateTimeFilter_init == [py |-> "DataFrameColumnDateTimeFilter"]

DateTimeFilter_fit(s, v) == After(s, v, Returned(s, "self"))

\* whether a column dtype is one a select_dtypes selector names: "datetime" is
\* numpy's datetime64, the dtype of timezone-naive timestamps
dtype_selected(dtype, selector) == selector = "datetime" /\ dtype = "datetime64[ns]"

\* a wrong select_dtypes: include= in place of exclude=
select_dtypes_include(df, include) ==
  TakeColumns(df, Positions(Len(df.columns),
     {i \in 1..Len(df.columns) :
        \E k \in 1..Len(include) : dtype_selected(df.columns[i].dtype, include[k])}))

\* DataFrame.select_dtypes(exclude=...): a new frame without the columns whose
\* dtype a selector names
select_dtypes(df, exclude) ==
  TakeColumns(df, Positions(Len(df.columns),
     {i \in 1..Len(df.columns) :
        ~\E k \in 1..Len(exclude) : dtype_selected(df.columns[i].dtype, exclude[k])}))

DateTimeFilter_transform(s, v) ==
  IF ~is_dataframe(v) THEN After(s, v, InvalidInput)
  ELSE After(s, v, Returned(select_dtypes(v, <<"datetime">>), "new"))

----------------------------------------------------------------------------
(* DataframeColumnRemover *)

ColumnRemover_init(columns_to_remove) ==
  [py |-> "DataframeColumnRemover", columns_to_remove |-> columns_to_remove]

ColumnRemover_fit(s, v) == After(s, v, Returned(s, "self"))

\* a wrong transform: the shortcut for no removal set comes before the validation
ColumnRemover_transform_unvalidated(s, X) ==
  IF s.columns_to_remove = None THEN After(s, X, Returned(X, "x"))
  ELSE IF ~is_dataframe(X) THEN After(s, X, InvalidInput)
  ELSE LET filtered_column_names ==
             SelectSeq(Names(X), LAMBDA c : ~In(c, s.columns_to_remove))
       IN  After(s, X, Returned(GetItem(X, filtered_column_names), "new"))

\* a wrong transform: keeps the named columns instead of removing them
ColumnRemover_transform_keeps(s, X) ==
  IF ~is_dataframe(X) THEN After(s, X, InvalidInput)
  ELSE IF s.columns_to_remove = None THEN After(s, X, Returned(X, "x"))
  ELSE LET filtered_column_names ==
             SelectSeq(Names(X), LAMBDA c : In(c, s.columns_to_remove))
       IN  After(s, X, Returned(GetItem(X, filtered_column_names), "new"))

ColumnRemover_transform(s, X) ==
  IF ~is_dataframe(X) THEN After(s, X, InvalidInput)
  ELSE IF s.columns_to_remove = None THEN After(s, X, Returned(X, "x"))
  ELSE LET filtered_column_names ==
             SelectSeq(Names(X), LAMBDA c : ~In(c, s.columns_to_remove))
       IN  After(s, X, Returned(GetItem(X, filtered_column_names), "new"))

----------------------------------------------------------------------------
(* DataframeNullValueFilter *)

NullValueFilter_init(excluded_columns) ==
  [py |-> "DataframeNullValueFilter",
   excluded_columns |-> IF Truthy(excluded_columns) THEN excluded_columns ELSE List(<< >>)]

\* a wrong fit: validates its argument as transform does
NullValueFilter_fit_validating(s, v) ==
  IF ~is_dataframe(v) THEN After(s, v, InvalidInput) ELSE After(s, v, Returned(s, "self"))

NullValueFilter_fit(s, v) == After(s, v, Returned(s, "self"))

\* the position of the column called name
ColumnAt(df, name) == CHOOSE i \in 1..Len(df.columns) : df.columns[i].name = name

\* a wrong check: df[col].isnull().any()
isnull_any(df, col) ==
  \E r \in 1..Len(df.data) : df.data[r][ColumnAt(df, col)] = NaN

\* df[col].isnull().all(): true of a column without rows
isnull_all(df, col) ==
  \A r \in 1..Len(df.data) : df.data[r][ColumnAt(df, col)] = NaN

\* a wrong call: df.dropna(axis=0, how='all', subset=subset)
dropna_how_all(df, subset) ==
  TakeRows(df, Positions(Len(df.data),
     {r \in 1..Len(df.data) :
        subset = << >>
        \/ \E k \in 1..Len(subset) : df.data[r][ColumnAt(df, subset[k])] # NaN}))

\* df.dropna(axis=0, how='any', subset=subset): the rows without a missing value
\* in a subset column, with the labels they had
dropna(df, subset) ==
  TakeRows(df, Positions(Len(df.data),
     {r \in 1..Len(df.data) :
        \A k \in 1..Len(subset) : df.data[r][ColumnAt(df, subset[k])] # NaN}))

\* a forgotten reset_index: the labels stay
reset_index_forgotten(df) == df

\* df.reset_index(drop=True): the labels become 0..n-1
reset_index(df) ==
  DataFrame(df.columns, [r \in 1..Len(df.data) |-> r - 1], df.data)

\* DataFrame.empty: "True if any of the axes are of length 0"
empty(df) == Len(df.index) = 0 \/ Len(df.columns) = 0

NullValueFilter_transform(s, v) ==
  IF ~is_dataframe(v) THEN After(s, v, InvalidInput)
  ELSE LET subset == SelectSeq(Names(v), LAMBDA c : ~In(c, s.excluded_columns))
           entirely_null_columns == SelectSeq(subset, LAMBDA col : isnull_all(v, col))
           dropped == reset_index(dropna(v, subset))
       IN  IF entirely_null_columns # << >>
           THEN After(s, v, HealthcareAIError("entirely null columns",
                                              Len(entirely_null_columns),
                                              entirely_null_columns))
           ELSE IF empty(dropped)
           THEN After(s, dropped, HealthcareAIError("all rows dropped", 0, << >>))
           ELSE After(s, dropped, Returned(dropped, "x"))

----------------------------------------------------------------------------
(* The inputs: tables, values that are no table, configurations *)

A == <<"A">>
B == <<"B">>
DTS == <<"D", "T", "S">>
AdmitDTS == <<"A", "d", "m", "i", "t", "D", "T", "S">>
AdmitDts == <<"A", "d", "m", "i", "t", "d", "t", "s">>
DTSCode == <<"D", "T", "S", "C", "o", "d", "e">>
TS == <<"T", "S">>
Z == <<"Z">>

\* the column layouts of the caller's tables
Schemas ==
  { << >>,
    << Col(A, "float64") >>,
    << Col(B, "object"), Col(A, "float64") >>,
    << Col(DTS, "datetime64[ns]"), Col(A, "float64") >>,
    << Col(AdmitDTS, "object"), Col(TS, "datetime64[ns]") >>,
    << Col(AdmitDts, "datetime64[ns, UTC]"), Col(DTSCode, "object") >>,
    << Col(A, "float64"), Col(AdmitDTS, "datetime64[ns]"), Col(B, "object") >> }

\* the cells a column of a dtype holds
Cells(dtype) == IF dtype = "float64" THEN {NaN, <<1>>, <<2>>} ELSE {NaN, <<1>>}

\* the row labels of a table of n rows: the default ones, or others
Indexes(n) ==
  {[r \in 1..n |-> r - 1]} \cup (IF n = 0 THEN {} ELSE {[r \in 1..n |-> 2 * r + 3]})

RowsOf(schema) ==
  {row \in [1..Len(schema) -> UNION {Cells(schema[i].dtype) : i \in 1..Len(schema)}] :
     \A i \in 1..Len(schema) : row[i] \in Cells(schema[i].dtype)}

Tables ==
  UNION { UNION { { DataFrame(schema, index, data) :
                      index \in Indexes(n), data \in [1..n -> RowsOf(schema)] } :
                  n \in 0..MaxRows } :
          schema \in Schemas }

\* what a caller may pass to fit and transform
Values == Tables \cup {None, List(<< >>)}

\* the filters a caller may construct
Filters ==
  {SuffixFilter_init, DateTimeFilter_init}
  \cup {ColumnRemover_init(c) : c \in {None, List(<< >>), List(<<A>>), List(<<AdmitDTS, Z>>)}}
  \cup {NullValueFilter_init(c) : c \in {None, List(<< >>), List(<<B>>), List(<<A, AdmitDTS>>)}}

----------------------------------------------------------------------------
(* The state machine *)

Init ==
  /\ self \in Filters
  /\ made = self
  /\ x \in Values
  /\ x_before = x
  /\ op = "none"
  /\ outcome = NoCall
  /\ chain = 0

\* what the caller can pass next: the object x, or the table the last transform returned
Args == {"x"} \cup (IF op = "transform" /\ outcome.kind = "return" THEN {"result"} ELSE {})

Arg(a) == IF a = "x" THEN x ELSE outcome.value

Fit(after) ==
  /\ self' = after.self
  /\ x' = after.x
  /\ outcome' = after.outcome
  /\ x_before' = x
  /\ op' = "fit"
  /\ chain' = 0
  /\ UNCHANGED made

Transform(a, after) ==
  /\ self' = after.self
  /\ x' = after.x
  /\ outcome' = after.outcome
  /\ x_before' = Arg(a)
  /\ op' = "transform"
  /\ chain' = IF a = "result" THEN (IF chain < 2 THEN chain + 1 ELSE chain) ELSE 1
  /\ UNCHANGED made

SuffixFilterFit ==
  /\ self.py = "DataframeColumnSuffixFilter"
  /\ Fit(SuffixFilter_fit(self, x))

SuffixFilterTransform ==
  /\ self.py = "DataframeColumnSuffixFilter"
  /\ \E a \in Args : Transform(a, SuffixFilter_transform(self, Arg(a)))

DateTimeFilterFit ==
  /\ self.py = "DataFrameColumnDateTimeFilter"
  /\ Fit(DateTimeFilter_fit(self, x))

DateTimeFilterTransform ==
  /\ self.py = "DataFrameColumnDateTimeFilter"
  /\ \E a \in Args : Transform(a, DateTimeFilter_transform(self, Arg(a)))

ColumnRemoverFit ==
  /\ self.py = "DataframeColumnRemover"
  /\ Fit(ColumnRemover_fit(self, x))

ColumnRemoverTransform ==
  /\ self.py = "DataframeColumnRemover"
  /\ \E a \in Args : Transform(a, ColumnRemover_transform(self, Arg(a)))

NullValueFilterFit ==
  /\ self.py = "DataframeNullValueFilter"
  /\ Fit(NullValueFilter_fit(self, x))

NullValueFilterTransform ==
  /\ self.py = "DataframeNullValueFilter"
  /\ \E a \in Args : Transform(a, NullValueFilter_transform(self, Arg(a)))

Next ==
  \/ SuffixFilterFit
  \/ SuffixFilterTransform
  \/ DateTimeFilterFit
  \/ DateTimeFilterTransform
  \/ ColumnRemoverFit
  \/ ColumnRemoverTransform
  \/ NullValueFilterFit
  \/ NullValueFilterTransform

Spec == Init /\ [][Next]_vars

----------------------------------------------------------------------------
(* Vocabulary of the properties.  In every state reached by a transform,   *)
(* x_before is the table T the call was given, x is that object after the  *)
(* call and outcome is what the call did.                                  *)

Transformed(class) == op = "transform" /\ self.py = class

Fitted(class) == op = "fit" /\ self.py = class

RaisedError(error) == outcome.kind = "raise" /\ outcome.error = error

ReturnedTable == outcome.kind = "return" /\ outcome.value.py = "DataFrame"

\* the columns of df the null-row filter inspects: those not excluded
Inspected(df) ==
  {i \in 1..Len(df.columns) :
     \A k \in 1..Len(self.excluded_columns.items) :
        self.excluded_columns.items[k] # df.columns[i].name}

EntirelyNull(df, i) == \A r \in 1..Len(df.data) : df.data[r][i] = NaN

\* row r of df has no null in an inspected column
Complete(df, r) == \A i \in Inspected(df) : df.data[r][i] # NaN

CompleteRows(df) == {r \in 1..Len(df.data) : Complete(df, r)}

\* s is the subsequence of t at the positions in P, in order
IsSubsequenceAt(s, t, P) ==
  /\ Len(s) = Cardinality(P)
  /\ \A k \in 1..Len(s) :
       \E p \in P : Cardinality({q \in P : q <= p}) = k /\ s[k] = t[p]

\* out holds exactly the rows of df at the positions in P, in order, labelled 0..n-1
KeepsRows(out, df, P) ==
  /\ out.columns = df.columns
  /\ IsSubsequenceAt(out.data, df.data, P)
  /\ Len(out.index) = Len(out.data)
  /\ \A k \in 1..Len(out.index) : out.index[k] = k - 1

\* out holds exactly the columns of df at the positions in P, in order, and all rows
KeepsColumns(out, df, P) ==
  /\ IsSubsequenceAt(out.columns, df.columns, P)
  /\ out.index = df.index
  /\ Len(out.data) = Len(df.data)
  /\ \A r \in 1..Len(df.data) : IsSubsequenceAt(out.data[r], df.data[r], P)

----------------------------------------------------------------------------
(* DataframeNullValueFilter.transform *)

NullFilterGiven ==
  Transformed("DataframeNullValueFilter") /\ is_dataframe(x_before)

\* C1: on every table where no inspected column is entirely null and at least
\* one row has no null in an inspected column, the null-row filter returns a
\* table with the columns of the input whose rows are exactly the input rows
\* without a null in an inspected column, in their order, labelled 0..n-1.
C1_ReturnsCompleteRows ==
  ( /\ NullFilterGiven
    /\ \A i \in Inspected(x_before) : ~EntirelyNull(x_before, i)
    /\ CompleteRows(x_before) # {} )
  => /\ ReturnedTable
     /\ KeepsRows(outcome.value, x_before, CompleteRows(x_before))

\* C2: the null-row filter raises the all-null-column error exactly when some
\* inspected column of the input is entirely null; the error carries the number
\* of such columns and names exactly them, and the input is as it was.
C2_AllNullColumnError ==
  NullFilterGiven =>
    LET nulls == {i \in Inspected(x_before) : EntirelyNull(x_before, i)}
    IN  /\ RaisedError("entirely null columns") <=> nulls # {}
        /\ RaisedError("entirely null columns") =>
             /\ outcome.count = Cardinality(nulls)
             /\ Len(outcome.columns) = Cardinality(nulls)
             /\ Range(outcome.columns) = {x_before.columns[i].name : i \in nulls}
             /\ x = x_before

\* C2 happens: the error names one of two columns, and not the excluded column
\* that is entirely null as well.
C2_Witness ==
  /\ NullFilterGiven
  /\ RaisedError("entirely null columns")
  /\ outcome.count = 1
  /\ Len(x_before.data) = 2
  /\ \E i \in 1..Len(x_before.columns) :
       i \notin Inspected(x_before) /\ EntirelyNull(x_before, i)
  /\ \E i \in Inspected(x_before) : ~EntirelyNull(x_before, i)

C4_InputUnchanged ==
  Transformed("DataframeNullValueFilter") => x = x_before

\* C4 amended: the null-row filter works on the caller's table in place.  After
\* the invalid-input or the all-null-column error the table is as it was; after
\* a return or the all-rows-dropped error it holds exactly its former rows
\* without a null in an inspected column, labelled 0..n-1, and a returned table
\* is that same object.
C4_InPlace ==
  Transformed("DataframeNullValueFilter") =>
    /\ (RaisedError("invalid input") \/ RaisedError("entirely null columns"))
         => x = x_before
    /\ (outcome.kind = "return" \/ RaisedError("all rows dropped"))
         => KeepsRows(x, x_before, CompleteRows(x_before))
    /\ outcome.kind = "return" => outcome.is = "x" /\ outcome.value = x

\* C4 happens: a returned table has fewer rows than the caller's table had.
C4_Witness ==
  /\ NullFilterGiven
  /\ outcome.kind = "return"
  /\ Len(x.data) < Len(x_before.data)
  /\ x_before.index # [r \in 1..Len(x_before.index) |-> r - 1]

----------------------------------------------------------------------------
(* DataframeColumnRemover.transform *)

\* the columns of df the remover's configuration does not name
NotRemoved(df) ==
  {i \in 1..Len(df.columns) :
     \A k \in 1..Len(self.columns_to_remove.items) :
        self.columns_to_remove.items[k] # df.columns[i].name}

\* C5: with an absent or empty removal set the remover returns a table equal to
\* its input; otherwise the output holds exactly the input columns not in the
\* removal set, in their order, with every row; names in the set that are no
\* column of the table are ignored.
C5_RemovesNamedColumns ==
  (Transformed("DataframeColumnRemover") /\ is_dataframe(x_before)) =>
    /\ ReturnedTable
    /\ IF self.columns_to_remove = None \/ self.columns_to_remove = List(<< >>)
       THEN outcome.value = x_before
       ELSE KeepsColumns(outcome.value, x_before, NotRemoved(x_before))

\* C5 happens: a removal set naming a column of the table and a name that is
\* none removes the first and leaves two columns.
C5_Witness ==
  /\ Transformed("DataframeColumnRemover")
  /\ is_dataframe(x_before)
  /\ self.columns_to_remove = List(<<AdmitDTS, Z>>)
  /\ Len(x_before.columns) = 3
  /\ Len(x_before.data) = 2
  /\ ReturnedTable
  /\ Names(outcome.value) = <<A, B>>

----------------------------------------------------------------------------
(* DataframeColumnSuffixFilter.transform *)

\* name ends with the three characters D, T, S
EndsWithDTS(name) ==
  /\ Len(name) >= 3
  /\ name[Len(name) - 2] = "D"
  /\ name[Len(name) - 1] = "T"
  /\ name[Len(name)] = "S"

\* C6: the suffix filter returns a table holding exactly the input columns
\* whose name does not end with "DTS", in their order, with every row, and
\* leaves its input as it was.
C6_RemovesSuffixColumns ==
  (Transformed("DataframeColumnSuffixFilter") /\ is_dataframe(x_before)) =>
    /\ ReturnedTable
    /\ KeepsColumns(outcome.value, x_before,
                    {i \in 1..Len(x_before.columns) : ~EndsWithDTS(x_before.columns[i].name)})
    /\ x = x_before

\* C6 happens: of the columns "DTS" and "A" of a two-row table, the one called
\* "DTS" is removed.
C6_Witness ==
  /\ Transformed("DataframeColumnSuffixFilter")
  /\ ReturnedTable
  /\ Names(x_before) = <<DTS, A>>
  /\ Names(outcome.value) = <<A>>
  /\ Len(outcome.value.data) = 2

----------------------------------------------------------------------------
(* DataFrameColumnDateTimeFilter.transform *)

----------------------------------------------------------------------------
(* All four filters *)

\* C8: transform of a value that is no table raises the invalid-input error in
\* each filter, before anything else happens: nothing is returned, no other
\* error is raised and the value is not changed.
C8_InvalidInputFirst ==
  (op = "transform" /\ ~is_dataframe(x_before)) =>
    /\ RaisedError("invalid input")
    /\ x = x_before

\* C8 happens: a remover without removal set is given None and raises.
C8_Witness ==
  /\ Transformed("DataframeColumnRemover")
  /\ self.columns_to_remove = None
  /\ x_before = None
  /\ RaisedError("invalid input")

\* C9: the suffix filter, the datetime filter and the remover return, for the
\* table they returned, a table equal to it: transform(transform(T)) equals
\* transform(T).
C9_Idempotent ==
  ( /\ op = "transform"
    /\ self.py \in {"DataframeColumnSuffixFilter", "DataFrameColumnDateTimeFilter",
                    "DataframeColumnRemover"}
    /\ chain = 2 )
  => /\ ReturnedTable
     /\ outcome.value = x_before

\* C9 happens: the suffix filter is applied to the two columns it left of three.
C9_Witness ==
  /\ Transformed("DataframeColumnSuffixFilter")
  /\ chain = 2
  /\ ReturnedTable
  /\ Names(outcome.value) = <<A, B>>
  /\ Len(outcome.value.data) = 2

\* C10: fit returns the filter itself, for a table and for any other value, and
\* leaves the value as it was; and whatever was called, the filter's
\* configuration is the one it was constructed with.
C10_ConfigurationFixed ==
  /\ self = made
  /\ op = "fit" => /\ outcome = Returned(made, "self")
                   /\ x = x_before

\* C10 happens: a null-row filter constructed with an excluded column was
\* fitted on a value that is no table, and returned.
C10_Witness ==
  /\ Fitted("DataframeNullValueFilter")
  /\ ~is_dataframe(x)
  /\ outcome.kind = "return"
  /\ self.excluded_columns = List(<<B>>)

====
